---- MODULE Spec2Model ----
(***************************************************************************)
(* Sales Data Comparator: the browser client (AuthManager,                 *)
(* CloudSyncManager, LocalCacheManager, AuthUI.handleLogout) together with *)
(* the Express data/auth routes it talks to, as one state machine.         *)
(*                                                                         *)
(* JavaScript strings whose characters matter (month ids, user names,      *)
(* passwords) are sequences of one-character strings; opaque strings are   *)
(* TLA+ strings.  A JavaScript null/undefined of a record type is the      *)
(* record of that type whose fields are all empty (NullToken, NullUser,    *)
(* NoData), so that every variable keeps one type.                         *)
(***************************************************************************)
EXTENDS Integers, Sequences, FiniteSets, Bags, TLC

\* ------------------------------------------------------------------ bounds
MaxTasks   == 1   \* engine calls that may be suspended on a fetch at once
MaxPending == 2   \* entries the pending log may hold
MaxRows    == 2   \* sales_data rows ever inserted (AUTOINCREMENT ids 1..MaxRows)
MaxUsers   == 2   \* users ever registered (AUTOINCREMENT ids 1..MaxUsers)

UserIds == 1..MaxUsers

\* ------------------------------------------------------------------ values
Digits == {"0", "1", "2", "3", "4", "5", "6", "7", "8", "9"}

DigitVal(c) ==
    CASE c = "0" -> 0 [] c = "1" -> 1 [] c = "2" -> 2 [] c = "3" -> 3
      [] c = "4" -> 4 [] c = "5" -> 5 [] c = "6" -> 6 [] c = "7" -> 7
      [] c = "8" -> 8 [] c = "9" -> 9

NaN == -1

\* parseInt(s, 10) on a string without sign or leading blanks: the value of
\* the longest prefix of digits, NaN when that prefix is empty.
RECURSIVE ParseDigits(_, _, _)
ParseDigits(s, i, acc) ==
    IF i > Len(s) \/ s[i] \notin Digits THEN acc
    ELSE ParseDigits(s, i + 1, acc * 10 + DigitVal(s[i]))

ParseInt(s) ==
    IF Len(s) = 0 \/ s[1] \notin Digits THEN NaN ELSE ParseDigits(s, 1, 0)

\* String.prototype.trim on a sequence of characters.
RECURSIVE TrimLeft(_)
TrimLeft(s) == IF Len(s) > 0 /\ s[1] = " " THEN TrimLeft(Tail(s)) ELSE s

RECURSIVE TrimRight(_)
TrimRight(s) ==
    IF Len(s) > 0 /\ s[Len(s)] = " " THEN TrimRight(SubSeq(s, 1, Len(s) - 1)) ELSE s

Trim(s) == TrimRight(TrimLeft(s))

\* The month ids the user works with: "1" is the form ids take after
\* StateManager.initFromCloud (the server row id as a string), "m1" is a
\* non-numeric id as in the tests.
MonthIds == {<<"1">>, <<"m", "1">>}
NoId == <<>>

MonthNames == {"Jan"}

MonthData ==
    [monthId : MonthIds, monthName : MonthNames, color : {"#E3F2FD"},
     config : {"cfg"}, groupedData : {"grp"}, rawData : {"raw"}]

NoData ==
    [monthId |-> NoId, monthName |-> "", color |-> "", config |-> "",
     groupedData |-> "", rawData |-> ""]

\* The account the sync engine is exercised with.
Account == [username |-> <<"a">>, password |-> <<"s", "e", "c", "r", "e", "t">>]

\* The messages of the program, by an ASCII name each.
ErrLoginFirst     == "login-first"            \* '请先登录'
ErrOfflineSavedU  == "offline-data-saved"     \* '网络离线，数据已保存到本地'
ErrOfflineSavedD  == "offline-op-saved"       \* '网络离线，操作已保存到本地'
ErrNetSavedU      == "neterr-data-saved"      \* '网络错误，数据已保存到本地'
ErrNetSavedD      == "neterr-op-saved"        \* '网络错误，操作已保存到本地'
ErrUploadFailed   == "upload-failed"          \* '上传失败'
ErrDeleteFailed   == "delete-failed"          \* '删除失败'
ErrDownloadFailed == "download-failed"        \* '下载失败'
ErrOfflineNoCache == "offline-no-cache"       \* '网络离线，无本地缓存数据'
ErrNetwork        == "network-error"          \* '网络错误'
ErrRelogin        == "relogin"                \* '请重新登录'
ErrTokenInvalid   == "token-invalid"          \* 'Token 无效'
ErrMonthIdEmpty   == "month-id-empty"         \* '月份ID不能为空'
ErrMonthNameEmpty == "month-name-empty"       \* '月份名称不能为空'
ErrBadDataId      == "bad-data-id"            \* '无效的数据ID'
ErrNotFound       == "not-found-or-forbidden" \* '数据不存在或无权限删除'
ErrServer         == "server-error"           \* '服务器错误'
ErrBadUsername    == "bad-username"           \* '请输入有效用户名'
ErrShortPassword  == "short-password"         \* '密码长度至少6位'
ErrUserExists     == "user-exists"            \* '用户名已存在'
ErrBadCredentials == "bad-credentials"        \* '用户名或密码错误'
ErrRegisterFailed == "register-failed"        \* '注册失败'
ErrLoginFailed    == "login-failed"           \* '登录失败'
ErrNetRetry       == "network-error-retry"    \* '网络错误，请稍后重试'

NullUser  == [id |-> 0, username |-> <<>>]
NullToken == [id |-> 0, username |-> <<>>, jwt |-> FALSE, exp |-> 0]

\* The clock of the server, in units of TOKEN_EXPIRY ('7d').
VARIABLE now

\* The clock values of a run.
MaxClock == 1

\* TOKEN_EXPIRY in units of the clock.
TokenExpiry == 1

\* generateToken({id, username}): the signed payload, which jwt.sign stamps
\* with exp = iat + TOKEN_EXPIRY.
generateToken(id, username) ==
    [id |-> id, username |-> username, jwt |-> TRUE, exp |-> now + TokenExpiry]

\* verifyToken: a token the server signed verifies until its exp, then
\* jwt.verify throws TokenExpiredError; anything else is a Token it did not
\* sign.
verifyToken(token) ==
    IF ~token.jwt
    THEN [valid |-> FALSE, payload |-> NullUser, error |-> ErrTokenInvalid]
    ELSE IF now >= token.exp
    THEN [valid |-> FALSE, payload |-> NullUser, error |-> ErrRelogin]
    ELSE [valid |-> TRUE, payload |-> [id |-> token.id, username |-> token.username], error |-> ""]

\* ------------------------------------------------------------------ state
VARIABLES
    online,        \* navigator.onLine
    syncStatus,    \* CloudSyncManager.syncStatus
    token,         \* AuthManager.token
    currentUser,   \* AuthManager.currentUser
    lsToken,       \* localStorage[AUTH_TOKEN_KEY]
    lsUser,        \* localStorage[AUTH_USER_KEY]
    lsCache,       \* localStorage[CACHE_KEY_PREFIX + userId], per user id
    lsPending,     \* localStorage[PENDING_OPS_KEY], parsed
    dbUsers,       \* table users
    dbSales,       \* table sales_data
    dbSeq,         \* sqlite_sequence: last AUTOINCREMENT id of each table
    tasks,         \* the engine calls suspended on a fetch (a bag)
    returned       \* what the call that returned in the last step returned (NoResult: none did)

vars == <<online, syncStatus, token, currentUser, lsToken, lsUser, lsCache,
          lsPending, dbUsers, dbSales, dbSeq, tasks, returned, now>>

clientVars == <<syncStatus, token, currentUser, lsToken, lsUser, lsCache, lsPending>>
authVars   == <<token, currentUser, lsToken, lsUser>>
dbVars     == <<dbUsers, dbSales, dbSeq, now>>

\* ------------------------------------------------------------------ server
Response(status, success, error, id, data) ==
    [status |-> status, success |-> success, error |-> error, id |-> id, data |-> data]

NoResponse == Response(0, FALSE, "", 0, <<>>)

\* authMiddleware on the Authorization header CloudSyncManager._getAuthHeaders
\* builds from the token: '' for no token, 'Bearer <token>' otherwise.
authMiddleware(tok) ==
    IF tok = NullToken THEN [ok |-> FALSE, user |-> NullUser, error |-> ErrRelogin]
    ELSE LET v == verifyToken(tok)
         IN  [ok |-> v.valid, user |-> v.payload, error |-> v.error]

\* A field of a JSON body that is a non-empty string of characters / an
\* opaque non-empty string: what `!x || typeof x !== 'string'` lets through.
HasChars(body, f) == f \in DOMAIN body /\ body[f] # <<>>
HasText(body, f)  == f \in DOMAIN body /\ body[f] # ""
TextOr(body, f, default) == IF HasText(body, f) THEN body[f] ELSE default

\* The request body uploadData sends: JSON.stringify({ monthData }).
UploadBody(monthData) == [monthData |-> monthData]

RowsOf(sales, userId) == {row \in sales : row.user_id = userId}

MinId(rows) == CHOOSE i \in {r.id : r \in rows} : \A j \in {r.id : r \in rows} : i <= j
MaxId(rows) == CHOOSE i \in {r.id : r \in rows} : \A j \in {r.id : r \in rows} : i >= j

\* router.post('/') that inserts a row without looking for an existing one.
routePost_insertOnly(userId, body, sales, seq) ==
    IF ~HasChars(body, "monthId")
    THEN [resp |-> Response(400, FALSE, ErrMonthIdEmpty, 0, <<>>), sales |-> sales, seq |-> seq]
    ELSE IF ~HasText(body, "monthName")
    THEN [resp |-> Response(400, FALSE, ErrMonthNameEmpty, 0, <<>>), sales |-> sales, seq |-> seq]
    ELSE [resp  |-> Response(201, TRUE, "", seq + 1, <<>>),
          sales |-> sales \cup
                    {[id |-> seq + 1, user_id |-> userId, month_id |-> body.monthId,
                      month_name |-> body.monthName,
                      color |-> TextOr(body, "color", "#4A90A4"),
                      config |-> TextOr(body, "config", "{}"),
                      grouped_data |-> TextOr(body, "groupedData", "[]"),
                      raw_data |-> TextOr(body, "rawData", "[]")]},
          seq   |-> seq + 1]

\* router.post('/'): upsert the body's month for the user.
routePost(userId, body, sales, seq) ==
    IF ~HasChars(body, "monthId")
    THEN [resp |-> Response(400, FALSE, ErrMonthIdEmpty, 0, <<>>), sales |-> sales, seq |-> seq]
    ELSE IF ~HasText(body, "monthName")
    THEN [resp |-> Response(400, FALSE, ErrMonthNameEmpty, 0, <<>>), sales |-> sales, seq |-> seq]
    ELSE
      LET existing == {row \in RowsOf(sales, userId) : row.month_id = body.monthId}
          fields == [month_name   |-> body.monthName,
                     color        |-> TextOr(body, "color", "#4A90A4"),
                     config       |-> TextOr(body, "config", "{}"),
                     grouped_data |-> TextOr(body, "groupedData", "[]"),
                     raw_data     |-> TextOr(body, "rawData", "[]")]
          NewRow(id) == [id |-> id, user_id |-> userId, month_id |-> body.monthId,
                         month_name |-> fields.month_name, color |-> fields.color,
                         config |-> fields.config, grouped_data |-> fields.grouped_data,
                         raw_data |-> fields.raw_data]
      IN  IF existing # {}
          THEN LET id == MinId(existing)
               IN  [resp  |-> Response(200, TRUE, "", id, <<>>),
                    sales |-> {row \in sales : row.id # id} \cup {NewRow(id)},
                    seq   |-> seq]
          ELSE [resp  |-> Response(201, TRUE, "", seq + 1, <<>>),
                sales |-> sales \cup {NewRow(seq + 1)},
                seq   |-> seq + 1]

\* router.delete('/:id') that looks the row up by its id alone.
routeDelete_noOwnerCheck(userId, idParam, sales) ==
    LET dataId == ParseInt(idParam)
    IN  IF dataId = NaN
        THEN [resp |-> Response(400, FALSE, ErrBadDataId, 0, <<>>), sales |-> sales]
        ELSE IF ~\E row \in sales : row.id = dataId
        THEN [resp |-> Response(404, FALSE, ErrNotFound, 0, <<>>), sales |-> sales]
        ELSE [resp |-> Response(200, TRUE, "", 0, <<>>),
              sales |-> {row \in sales : row.id # dataId}]

\* router.delete('/:id'): delete the row with that row id when the user owns it.
routeDelete(userId, idParam, sales) ==
    LET dataId == ParseInt(idParam)
    IN  IF dataId = NaN
        THEN [resp |-> Response(400, FALSE, ErrBadDataId, 0, <<>>), sales |-> sales]
        ELSE IF ~\E row \in sales : row.id = dataId /\ row.user_id = userId
        THEN [resp |-> Response(404, FALSE, ErrNotFound, 0, <<>>), sales |-> sales]
        ELSE [resp |-> Response(200, TRUE, "", 0, <<>>),
              sales |-> {row \in sales : row.id # dataId}]

\* The rows as router.get('/') returns them: newest first (created_at DESC,
\* and a row's created_at grows with its id).
RECURSIVE NewestFirst(_)
NewestFirst(rows) ==
    IF rows = {} THEN <<>>
    ELSE LET top == CHOOSE r \in rows : r.id = MaxId(rows)
         IN  <<top>> \o NewestFirst(rows \ {top})

Item(row) ==
    [id |-> row.id, monthId |-> row.month_id, monthName |-> row.month_name,
     color |-> row.color, config |-> row.config, groupedData |-> row.grouped_data,
     rawData |-> row.raw_data]

routeGet(userId, sales) ==
    LET rows == NewestFirst(RowsOf(sales, userId))
    IN  Response(200, TRUE, "", 0, [i \in 1..Len(rows) |-> Item(rows[i])])

\* ------------------------------------------------------------------ client
\* AuthManager.isLoggedIn
isLoggedIn == token # NullToken /\ currentUser # NullUser

\* The argument of an engine call: the month data of an upload, the month id
\* of a delete, neither for a download.
UploadArg(monthData) == [data |-> monthData, monthId |-> NoId]
DeleteArg(monthId)   == [data |-> NoData, monthId |-> monthId]
NoArg                == [data |-> NoData, monthId |-> NoId]

\* The pending operation uploadData / deleteData append for a call:
\* { type, data | monthId, timestamp: Date.now() }.  No code reads the
\* timestamp, so every reading of the clock is the one value "Date.now()".
PendingOp(kind, arg) ==
    [type |-> kind, data |-> arg.data, monthId |-> arg.monthId, timestamp |-> "Date.now()"]

\* LocalCacheManager.getPendingOperations on the stored value (absent: []).
getPendingOperations(stored) == stored

\* addPendingOperation with unshift in the place of push.
addPendingOperation_unshift(stored, op) == <<op>> \o getPendingOperations(stored)

\* LocalCacheManager.addPendingOperation: read, push, store.
addPendingOperation(stored, op) == Append(getPendingOperations(stored), op)

\* LocalCacheManager.clearPendingOperations: removeItem.
clearPendingOperations(stored) == <<>>

\* What a call returns to its caller.
Result(op, success, error, id, data, synced, failed) ==
    [op |-> op, success |-> success, error |-> error, id |-> id, data |-> data,
     synced |-> synced, failed |-> failed]

NoResult == Result("none", FALSE, "", 0, <<>>, 0, 0)

\* The engine state a call reads and writes between two suspensions.
Engine(status, pending) == [status |-> status, pending |-> pending]

SavedOffline(kind) == IF kind = "upload" THEN ErrOfflineSavedU ELSE ErrOfflineSavedD
SavedNetErr(kind)  == IF kind = "upload" THEN ErrNetSavedU ELSE ErrNetSavedD
FailedMsg(kind)    == IF kind = "upload" THEN ErrUploadFailed ELSE ErrDeleteFailed

\* StartCall without the login check.
StartCall_noLoginCheck(kind, arg, loggedIn, isOnline, e) ==
    IF ~isOnline
    THEN [issued |-> FALSE,
          e |-> Engine("offline", addPendingOperation(e.pending, PendingOp(kind, arg))),
          result |-> Result(kind, FALSE, SavedOffline(kind), 0, <<>>, 0, 0)]
    ELSE [issued |-> TRUE, e |-> Engine("syncing", e.pending), result |-> NoResult]

\* StartCall whose offline branch sends the request like the online one.
StartCall_noOfflineBranch(kind, arg, loggedIn, isOnline, e) ==
    IF ~loggedIn
    THEN [issued |-> FALSE, e |-> e,
          result |-> Result(kind, FALSE, ErrLoginFirst, 0, <<>>, 0, 0)]
    ELSE [issued |-> TRUE, e |-> Engine("syncing", e.pending), result |-> NoResult]

\* uploadData / deleteData up to the fetch: the login check, the offline
\* branch (status offline, enqueue, "saved locally"), else status syncing
\* and the request goes out.
StartCall(kind, arg, loggedIn, isOnline, e) ==
    IF ~loggedIn
    THEN [issued |-> FALSE, e |-> e,
          result |-> Result(kind, FALSE, ErrLoginFirst, 0, <<>>, 0, 0)]
    ELSE IF ~isOnline
    THEN [issued |-> FALSE,
          e |-> Engine("offline", addPendingOperation(e.pending, PendingOp(kind, arg))),
          result |-> Result(kind, FALSE, SavedOffline(kind), 0, <<>>, 0, 0)]
    ELSE [issued |-> TRUE, e |-> Engine("syncing", e.pending), result |-> NoResult]

\* FinishCall whose catch branch returns the plain failure of the call.
FinishCall_plainFailure(kind, arg, thrown, resp, e) ==
    IF thrown
    THEN [e |-> Engine("error", addPendingOperation(e.pending, PendingOp(kind, arg))),
          result |-> Result(kind, FALSE, FailedMsg(kind), 0, <<>>, 0, 0)]
    ELSE IF resp.success
    THEN [e |-> Engine("idle", e.pending),
          result |-> Result(kind, TRUE, "", IF kind = "upload" THEN resp.id ELSE 0, <<>>, 0, 0)]
    ELSE [e |-> Engine("error", e.pending),
          result |-> Result(kind, FALSE,
                            IF resp.error # "" THEN resp.error ELSE FailedMsg(kind),
                            0, <<>>, 0, 0)]

\* uploadData / deleteData after the fetch: a thrown request enqueues the
\* operation and sets error; a success response sets idle; any other
\* response sets error and is returned as it is.
FinishCall(kind, arg, thrown, resp, e) ==
    IF thrown
    THEN [e |-> Engine("error",
                       addPendingOperation(e.pending, PendingOp(kind, arg))),
          result |-> Result(kind, FALSE, SavedNetErr(kind), 0, <<>>, 0, 0)]
    ELSE IF resp.success
    THEN [e |-> Engine("idle", e.pending),
          result |-> Result(kind, TRUE, "", IF kind = "upload" THEN resp.id ELSE 0, <<>>, 0, 0)]
    ELSE [e |-> Engine("error", e.pending),
          result |-> Result(kind, FALSE,
                            IF resp.error # "" THEN resp.error ELSE FailedMsg(kind),
                            0, <<>>, 0, 0)]

\* The end of syncPendingOperations: the log is cleared when at least one
\* operation was synced, the status is error when one failed.
ShouldClear(synced, failed) == synced > 0

\* FinishSync whose final status does not look at the failed count.
FinishSync_alwaysIdle(synced, failed, e) ==
    [e |-> Engine("idle",
                  IF ShouldClear(synced, failed) THEN clearPendingOperations(e.pending)
                  ELSE e.pending),
     result |-> Result("sync", failed = 0, "", 0, <<>>, synced, failed)]

FinishSync(synced, failed, e) ==
    [e |-> Engine(IF failed > 0 THEN "error" ELSE "idle",
                  IF ShouldClear(synced, failed) THEN clearPendingOperations(e.pending)
                  ELSE e.pending),
     result |-> Result("sync", failed = 0, "", 0, <<>>, synced, failed)]

\* The index of the operation the replay loop takes after the one at i.
NextIndex(i) == i + 1

\* The replay loop of syncPendingOperations from index idx on, up to its next
\* suspension: an operation whose call returns without a fetch (not logged
\* in, offline) counts as failed and the loop goes on; the loop stops at the
\* first call that issues a fetch, or ends.
RECURSIVE Replay(_, _, _, _, _, _, _)
Replay(ops, idx, synced, failed, loggedIn, isOnline, e) ==
    IF idx > Len(ops)
    THEN LET f == FinishSync(synced, failed, e)
         IN  [done |-> TRUE, idx |-> idx, synced |-> synced, failed |-> failed,
              e |-> f.e, result |-> f.result]
    ELSE LET op == ops[idx]
             s  == StartCall(op.type, [data |-> op.data, monthId |-> op.monthId],
                             loggedIn, isOnline, e)
         IN  IF s.issued
             THEN [done |-> FALSE, idx |-> idx, synced |-> synced, failed |-> failed,
                   e |-> s.e, result |-> NoResult]
             ELSE Replay(ops, NextIndex(idx), synced, failed + 1, loggedIn, isOnline, s.e)

\* cacheData that adds the data to what is stored instead of replacing it.
cacheData_merge(cache, userId, data) ==
    IF userId = 0 THEN cache
    ELSE [cache EXCEPT ![userId] = [present |-> TRUE, data |-> data \o cache[userId].data]]

\* The values an importedAt has: a Date of an instant, or the ISO-8601
\* string of an instant.
DateOf(iso) == [date |-> TRUE, text |-> iso]
StringOf(iso) == [date |-> FALSE, text |-> iso]

\* new Date(undefined)
InvalidDate == DateOf("Invalid Date")

\* What cacheData stores for an item: importedAt.toISOString() for a Date,
\* importedAt itself otherwise; JSON.stringify drops the importedAt of an
\* item that has none (undefined), so that item is stored as it is.
Stored(d) ==
    [f \in DOMAIN d |->
        IF f = "importedAt" /\ d[f].date THEN StringOf(d[f].text) ELSE d[f]]

\* LocalCacheManager.cacheData
cacheData(cache, userId, data) ==
    IF userId = 0 THEN cache
    ELSE [cache EXCEPT ![userId] =
            [present |-> TRUE, data |-> [i \in 1..Len(data) |-> Stored(data[i])]]]

\* What getCachedData makes of a stored item: importedAt: new Date(d.importedAt).
Revive(d) ==
    [f \in DOMAIN d \cup {"importedAt"} |->
        IF f # "importedAt" THEN d[f]
        ELSE IF "importedAt" \in DOMAIN d THEN DateOf(d.importedAt.text)
        ELSE InvalidDate]

\* LocalCacheManager.getCachedData
getCachedData(cache, userId) ==
    IF userId = 0 \/ ~cache[userId].present THEN <<>>
    ELSE [i \in 1..Len(cache[userId].data) |-> Revive(cache[userId].data[i])]

NoCache == [present |-> FALSE, data |-> <<>>]

\* clearUserCache that removes every identity's snapshot.
clearUserCache_all(cache, userId) ==
    IF userId = 0 THEN cache ELSE [u \in DOMAIN cache |-> NoCache]

\* LocalCacheManager.clearUserCache
clearUserCache(cache, userId) ==
    IF userId = 0 THEN cache ELSE [cache EXCEPT ![userId] = NoCache]

\* LocalCacheManager.clearAllCache on the cache entries: every one removed
\* (it clears the pending log too, by clearPendingOperations).
clearAllCache(cache) == [u \in DOMAIN cache |-> NoCache]

\* ------------------------------------------------------------------ tasks
\* An engine call suspended on a fetch: the call the application made
\* (kind), the request in flight (call, arg, auth: the token its headers
\* were built from) and, for a replay, its snapshot of the log, the index of
\* the operation in flight and its counters.
Task(kind, call, arg, auth, ops, idx, synced, failed) ==
    [kind |-> kind, call |-> call, arg |-> arg, auth |-> auth,
     ops |-> ops, idx |-> idx, synced |-> synced, failed |-> failed]

\* A call of uploadData/deleteData/downloadAllData suspended on its fetch.
CallTask(kind, arg) == Task(kind, kind, arg, token, <<>>, 0, 0, 0)

\* syncPendingOperations suspended on the fetch of the operation at idx.
SyncTask(ops, idx, synced, failed, auth) ==
    Task("sync", ops[idx].type, [data |-> ops[idx].data, monthId |-> ops[idx].monthId],
         auth, ops, idx, synced, failed)

InFlight == BagToSet(tasks)
Suspend(bag, t) == bag (+) SetToBag({t})
Resume(bag, t)  == bag (-) SetToBag({t})
CanSuspend(bag) == BagCardinality(bag) < MaxTasks

CurrentEngine == Engine(syncStatus, lsPending)

SetEngine(e) ==
    /\ Len(e.pending) <= MaxPending
    /\ syncStatus' = e.status
    /\ lsPending' = e.pending

Init ==
    /\ online = TRUE
    /\ syncStatus = "idle"
    /\ token = NullToken
    /\ currentUser = NullUser
    /\ lsToken = NullToken
    /\ lsUser = NullUser
    /\ lsCache = [u \in UserIds |-> NoCache]
    /\ lsPending = <<>>
    /\ dbUsers = {}
    /\ dbSales = {}
    /\ dbSeq = [users |-> 0, sales |-> 0]
    /\ tasks = EmptyBag
    /\ returned = NoResult
    /\ now = 0

\* ------------------------------------------------------------------ auth
\* validateUsername that does not trim.
validateUsername_noTrim(username) ==
    IF username = <<>> THEN [valid |-> FALSE, error |-> ErrBadUsername]
    ELSE [valid |-> TRUE, error |-> ""]

\* validateUsername (client and server alike): a non-empty string that is
\* not blank.
validateUsername(username) ==
    IF username = <<>> THEN [valid |-> FALSE, error |-> ErrBadUsername]
    ELSE IF Len(Trim(username)) = 0 THEN [valid |-> FALSE, error |-> ErrBadUsername]
    ELSE [valid |-> TRUE, error |-> ""]

MinPasswordLength == 6

\* validatePassword (client and server alike): at least 6 characters.
validatePassword(password) ==
    IF password = <<>> THEN [valid |-> FALSE, error |-> ErrShortPassword]
    ELSE IF Len(password) < MinPasswordLength THEN [valid |-> FALSE, error |-> ErrShortPassword]
    ELSE [valid |-> TRUE, error |-> ""]

\* hashPassword / verifyPassword: bcrypt as an opaque injective hash.
hashPassword(password) == <<"bcrypt">> \o password
verifyPassword(password, hash) == hash = hashPassword(password)

AuthResponse(status, success, error, tok, user) ==
    [status |-> status, success |-> success, error |-> error, token |-> tok, user |-> user]

\* router.post('/register') without the look-up of the name.
routeRegister_noDupCheck(username, password, users, seq) ==
    LET uv == validateUsername(username)
        pv == validatePassword(password)
        trimmed == Trim(username)
    IN  IF ~uv.valid
        THEN [resp |-> AuthResponse(400, FALSE, uv.error, NullToken, NullUser), users |-> users, seq |-> seq]
        ELSE IF ~pv.valid
        THEN [resp |-> AuthResponse(400, FALSE, pv.error, NullToken, NullUser), users |-> users, seq |-> seq]
        ELSE [resp  |-> AuthResponse(201, TRUE, "", generateToken(seq + 1, trimmed),
                                     [id |-> seq + 1, username |-> trimmed]),
              users |-> users \cup {[id |-> seq + 1, username |-> trimmed,
                                     password_hash |-> hashPassword(password)]},
              seq   |-> seq + 1]

\* router.post('/register')
routeRegister(username, password, users, seq) ==
    LET uv == validateUsername(username)
        pv == validatePassword(password)
        trimmed == Trim(username)
    IN  IF ~uv.valid
        THEN [resp |-> AuthResponse(400, FALSE, uv.error, NullToken, NullUser), users |-> users, seq |-> seq]
        ELSE IF ~pv.valid
        THEN [resp |-> AuthResponse(400, FALSE, pv.error, NullToken, NullUser), users |-> users, seq |-> seq]
        ELSE IF \E u \in users : u.username = trimmed
        THEN [resp |-> AuthResponse(409, FALSE, ErrUserExists, NullToken, NullUser), users |-> users, seq |-> seq]
        ELSE [resp  |-> AuthResponse(201, TRUE, "", generateToken(seq + 1, trimmed),
                                     [id |-> seq + 1, username |-> trimmed]),
              users |-> users \cup {[id |-> seq + 1, username |-> trimmed,
                                     password_hash |-> hashPassword(password)]},
              seq   |-> seq + 1]

\* router.post('/login') that tells an unknown name from a wrong password.
routeLogin_tellsUnknown(username, password, users) ==
    LET trimmed == Trim(username)
        found == {u \in users : u.username = trimmed}
    IN  IF username = <<>> \/ password = <<>>
        THEN AuthResponse(401, FALSE, ErrBadCredentials, NullToken, NullUser)
        ELSE IF found = {}
        THEN AuthResponse(404, FALSE, "unknown-user", NullToken, NullUser)
        ELSE LET user == CHOOSE u \in found : TRUE
             IN  IF ~verifyPassword(password, user.password_hash)
                 THEN AuthResponse(401, FALSE, ErrBadCredentials, NullToken, NullUser)
                 ELSE AuthResponse(200, TRUE, "", generateToken(user.id, user.username),
                                   [id |-> user.id, username |-> user.username])

\* router.post('/login')
routeLogin(username, password, users) ==
    LET trimmed == Trim(username)
        found == {u \in users : u.username = trimmed}
    IN  IF username = <<>> \/ password = <<>>
        THEN AuthResponse(401, FALSE, ErrBadCredentials, NullToken, NullUser)
        ELSE IF found = {}
        THEN AuthResponse(401, FALSE, ErrBadCredentials, NullToken, NullUser)
        ELSE LET user == CHOOSE u \in found : TRUE
             IN  IF ~verifyPassword(password, user.password_hash)
                 THEN AuthResponse(401, FALSE, ErrBadCredentials, NullToken, NullUser)
                 ELSE AuthResponse(200, TRUE, "", generateToken(user.id, user.username),
                                   [id |-> user.id, username |-> user.username])

\* AcceptSession that takes the token of the response and not its user.
AcceptSession_tokenOnly(op, resp, fallback) ==
    IF resp.success /\ resp.token # NullToken
    THEN /\ token' = resp.token
         /\ lsToken' = resp.token
         /\ UNCHANGED <<currentUser, lsUser>>
         /\ returned' = Result(op, TRUE, "", 0, <<>>, 0, 0)
    ELSE /\ UNCHANGED authVars
         /\ returned' = Result(op, FALSE, IF resp.error # "" THEN resp.error ELSE fallback,
                                 0, <<>>, 0, 0)

\* What AuthManager.register / login do with the response: a success with a
\* token becomes the session and is saved (_saveSession); anything else is
\* returned as the error.
AcceptSession(op, resp, fallback) ==
    IF resp.success /\ resp.token # NullToken
    THEN /\ token' = resp.token
         /\ currentUser' = resp.user
         /\ lsToken' = resp.token
         /\ lsUser' = IF resp.user # NullUser THEN resp.user ELSE lsUser
         /\ returned' = Result(op, TRUE, "", 0, <<>>, 0, 0)
    ELSE /\ UNCHANGED authVars
         /\ returned' = Result(op, FALSE, IF resp.error # "" THEN resp.error ELSE fallback,
                                 0, <<>>, 0, 0)

\* The ways a fetch ends: the request never arrives, the server answers and
\* the answer arrives, the server answers and the answer is lost.
FetchOutcomes == {"delivered", "request-lost", "response-lost"}

\* AuthManager.register(username, password)
register(username, password) ==
    LET uv == validateUsername(username)
        pv == validatePassword(password)
    IN  /\ UNCHANGED <<online, syncStatus, lsCache, lsPending, dbSales, tasks, now>>
        /\ IF ~uv.valid \/ ~pv.valid
           THEN /\ returned' = Result("register", FALSE,
                                        IF ~uv.valid THEN uv.error ELSE pv.error, 0, <<>>, 0, 0)
                /\ UNCHANGED <<authVars, dbUsers, dbSeq>>
           ELSE \E outcome \in FetchOutcomes :
                LET r == routeRegister(Trim(username), password, dbUsers, dbSeq.users)
                IN  IF outcome = "request-lost"
                    THEN /\ returned' = Result("register", FALSE, ErrNetRetry, 0, <<>>, 0, 0)
                         /\ UNCHANGED <<authVars, dbUsers, dbSeq>>
                    ELSE /\ r.seq <= MaxUsers
                         /\ dbUsers' = r.users
                         /\ dbSeq' = [dbSeq EXCEPT !.users = r.seq]
                         /\ IF outcome = "delivered"
                            THEN AcceptSession("register", r.resp, ErrRegisterFailed)
                            ELSE /\ returned' = Result("register", FALSE, ErrNetRetry, 0, <<>>, 0, 0)
                                 /\ UNCHANGED authVars

\* AuthManager.login(username, password)
login(username, password) ==
    LET uv == validateUsername(username)
        pv == validatePassword(password)
    IN  /\ UNCHANGED <<online, syncStatus, lsCache, lsPending, dbVars, tasks>>
        /\ IF ~uv.valid \/ ~pv.valid
           THEN /\ returned' = Result("login", FALSE,
                                        IF ~uv.valid THEN uv.error ELSE pv.error, 0, <<>>, 0, 0)
                /\ UNCHANGED authVars
           ELSE \E outcome \in FetchOutcomes :
                IF outcome = "delivered"
                THEN AcceptSession("login", routeLogin(Trim(username), password, dbUsers), ErrLoginFailed)
                ELSE /\ returned' = Result("login", FALSE, ErrNetRetry, 0, <<>>, 0, 0)
                     /\ UNCHANGED authVars

\* handleLogout that ends the session and clears neither cache nor log.
handleLogout_keepsCache ==
    /\ isLoggedIn
    /\ token' = NullToken
    /\ currentUser' = NullUser
    /\ lsToken' = NullToken
    /\ lsUser' = NullUser
    /\ UNCHANGED <<online, syncStatus, lsCache, lsPending, dbVars, tasks>>
    /\ returned' = NoResult

\* handleLogout that leaves the saved session in localStorage.
handleLogout_keepsSavedSession ==
    /\ isLoggedIn
    /\ token' = NullToken
    /\ currentUser' = NullUser
    /\ UNCHANGED <<lsToken, lsUser>>
    /\ lsCache' = clearAllCache(clearUserCache(lsCache, currentUser.id))
    /\ lsPending' = clearPendingOperations(lsPending)
    /\ UNCHANGED <<online, syncStatus, dbVars, tasks>>
    /\ returned' = NoResult

\* AuthUI.handleLogout, the click handler of the logout button (shown while
\* logged in): AuthManager.logout (token, user, saved session), then
\* clearUserCache for the user and clearAllCache (every cache entry and the
\* pending log).  CloudSyncManager.syncStatus is not written.
handleLogout ==
    /\ isLoggedIn
    /\ token' = NullToken
    /\ currentUser' = NullUser
    /\ lsToken' = NullToken
    /\ lsUser' = NullUser
    /\ lsCache' = clearAllCache(clearUserCache(lsCache, currentUser.id))
    /\ lsPending' = clearPendingOperations(lsPending)
    /\ UNCHANGED <<online, syncStatus, dbVars, tasks>>
    /\ returned' = NoResult

\* ------------------------------------------------------------------ engine
\* A call of uploadData or deleteData by the application: it returns at once
\* (not logged in, offline) or is suspended on its fetch.
MutationCall(kind, arg) ==
    LET s == StartCall(kind, arg, isLoggedIn, online, CurrentEngine)
    IN  /\ SetEngine(s.e)
        /\ IF s.issued
           THEN /\ CanSuspend(tasks)
                /\ tasks' = Suspend(tasks, CallTask(kind, arg))
                /\ returned' = NoResult
           ELSE /\ returned' = s.result
                /\ UNCHANGED tasks
        /\ UNCHANGED <<online, authVars, lsCache, dbVars>>

\* CloudSyncManager.uploadData(monthData)
uploadData(monthData) == MutationCall("upload", UploadArg(monthData))

\* CloudSyncManager.deleteData(monthId)
deleteData(monthId) == MutationCall("delete", DeleteArg(monthId))

\* CacheFallback that never finds cached data.
CacheFallback_ignoresCache(noCacheError) ==
    Result("download", FALSE, noCacheError, 0, <<>>, 0, 0)

\* The cache fallback of downloadAllData (offline, or the request threw).
CacheFallback(noCacheError) ==
    LET cachedData == getCachedData(lsCache, currentUser.id)
    IN  IF Len(cachedData) > 0
        THEN Result("download", TRUE, "", 0, cachedData, 0, 0)
        ELSE Result("download", FALSE, noCacheError, 0, <<>>, 0, 0)

\* CloudSyncManager.downloadAllData()
downloadAllData ==
    /\ UNCHANGED <<online, authVars, lsCache, lsPending, dbVars>>
    /\ IF ~isLoggedIn
       THEN /\ returned' = Result("download", FALSE, ErrLoginFirst, 0, <<>>, 0, 0)
            /\ UNCHANGED <<syncStatus, tasks>>
       ELSE IF ~online
       THEN /\ syncStatus' = "offline"
            /\ returned' = CacheFallback(ErrOfflineNoCache)
            /\ UNCHANGED tasks
       ELSE /\ CanSuspend(tasks)
            /\ syncStatus' = "syncing"
            /\ tasks' = Suspend(tasks, CallTask("download", NoArg))
            /\ returned' = NoResult

\* The replay loop from idx on, as the step of the state machine: either the
\* run ends and its result is returned, or it is suspended on the next
\* fetch.  others: the calls in flight besides this run.
ReplayStep(others, ops, idx, synced, failed, e) ==
    LET r == Replay(ops, idx, synced, failed, isLoggedIn', online', e)
    IN  /\ SetEngine(r.e)
        /\ IF r.done
           THEN /\ tasks' = others
                /\ returned' = r.result
           ELSE /\ CanSuspend(others)
                /\ tasks' = Suspend(others, SyncTask(ops, r.idx, r.synced, r.failed, token'))
                /\ returned' = NoResult

\* SyncCall without the two early returns: the replay loop is entered with
\* the network unreachable or the log empty.
SyncCall_noEarlyReturn(e) ==
    ReplayStep(tasks, getPendingOperations(e.pending), 1, 0, 0,
               Engine("syncing", e.pending))

\* CloudSyncManager.syncPendingOperations(), called with the engine state e
\* (the online listener sets idle before it calls).
SyncCall(e) ==
    LET pendingOps == getPendingOperations(e.pending)
    IN  IF ~online'
        THEN /\ SetEngine(e)
             /\ returned' = Result("sync", FALSE, "", 0, <<>>, 0, 0)
             /\ UNCHANGED tasks
        ELSE IF Len(pendingOps) = 0
        THEN /\ SetEngine(e)
             /\ returned' = Result("sync", TRUE, "", 0, <<>>, 0, 0)
             /\ UNCHANGED tasks
        ELSE ReplayStep(tasks, pendingOps, 1, 0, 0, Engine("syncing", e.pending))

\* An explicit call of syncPendingOperations.
syncPendingOperations ==
    /\ UNCHANGED <<online, authVars, lsCache, dbVars>>
    /\ SyncCall(CurrentEngine)

\* The 'online' listener without its _setSyncStatus('idle').
OnlineEvent_noIdle ==
    /\ ~online
    /\ online' = TRUE
    /\ UNCHANGED <<authVars, lsCache, dbVars>>
    /\ SyncCall(CurrentEngine)

\* The 'online' listener of initNetworkListener: status idle, then
\* syncPendingOperations (not awaited).
OnlineEvent ==
    /\ ~online
    /\ online' = TRUE
    /\ UNCHANGED <<authVars, lsCache, dbVars>>
    /\ SyncCall(Engine("idle", lsPending))

\* The 'offline' listener of initNetworkListener.
OfflineEvent ==
    /\ online
    /\ online' = FALSE
    /\ syncStatus' = "offline"
    /\ UNCHANGED <<authVars, lsCache, lsPending, dbVars, tasks>>
    /\ returned' = NoResult

\* ------------------------------------------------------------------ fetch
\* The server on the request of task t: authMiddleware, then the route; a
\* route whose database call throws answers 500.
Serve(t, dbThrows, sales, seq) ==
    LET auth == authMiddleware(t.auth)
    IN  IF ~auth.ok
        THEN [resp |-> Response(401, FALSE, auth.error, 0, <<>>), sales |-> sales, seq |-> seq]
        ELSE IF dbThrows
        THEN [resp |-> Response(500, FALSE, ErrServer, 0, <<>>), sales |-> sales, seq |-> seq]
        ELSE IF t.call = "upload"
        THEN routePost(auth.user.id, UploadBody(t.arg.data), sales, seq)
        ELSE IF t.call = "delete"
        THEN LET d == routeDelete(auth.user.id, t.arg.monthId, sales)
             IN  [resp |-> d.resp, sales |-> d.sales, seq |-> seq]
        ELSE [resp |-> routeGet(auth.user.id, sales), sales |-> sales, seq |-> seq]

\* The code after `await fetch(...)` / `await response.json()` of task t,
\* entered with the response or, when thrown, in the catch branch.
Continue(t, thrown, resp) ==
    /\ UNCHANGED <<online, authVars>>
    /\ IF t.kind \in {"upload", "delete"}
       THEN LET f == FinishCall(t.call, t.arg, thrown, resp, CurrentEngine)
            IN  /\ SetEngine(f.e)
                /\ returned' = f.result
                /\ tasks' = Resume(tasks, t)
                /\ UNCHANGED lsCache
       ELSE IF t.kind = "download"
       THEN /\ tasks' = Resume(tasks, t)
            /\ UNCHANGED lsPending
            /\ IF thrown
               THEN /\ syncStatus' = "error"
                    /\ returned' = CacheFallback(ErrNetwork)
                    /\ UNCHANGED lsCache
               ELSE IF resp.success
               THEN /\ syncStatus' = "idle"
                    /\ lsCache' = cacheData(lsCache, currentUser.id, resp.data)
                    /\ returned' = Result("download", TRUE, "", 0, resp.data, 0, 0)
               ELSE /\ syncStatus' = "error"
                    /\ returned' = Result("download", FALSE,
                           IF resp.error # "" THEN resp.error ELSE ErrDownloadFailed,
                           0, <<>>, 0, 0)
                    /\ UNCHANGED lsCache
       ELSE LET f  == FinishCall(t.call, t.arg, thrown, resp, CurrentEngine)
                ok == f.result.success
            IN  /\ ReplayStep(Resume(tasks, t), t.ops, NextIndex(t.idx),
                              IF ok THEN t.synced + 1 ELSE t.synced,
                              IF ok THEN t.failed ELSE t.failed + 1,
                              f.e)
                /\ UNCHANGED lsCache

\* The fetch of task t throws: the request never reached the server, or the
\* server handled it and the response was lost or came after the timeout.
FetchThrows(t) ==
    \E handled \in BOOLEAN, dbThrows \in BOOLEAN :
        LET out == Serve(t, dbThrows, dbSales, dbSeq.sales)
        IN  /\ handled \/ ~dbThrows
            /\ IF handled
               THEN /\ out.seq <= MaxRows
                    /\ dbSales' = out.sales
                    /\ dbSeq' = [dbSeq EXCEPT !.sales = out.seq]
               ELSE UNCHANGED <<dbSales, dbSeq>>
            /\ UNCHANGED <<dbUsers, now>>
            /\ Continue(t, TRUE, NoResponse)

\* The fetch of task t returns: the server handles the request and its
\* response reaches the client.
FetchReturns(t) ==
    \E dbThrows \in BOOLEAN :
        LET out == Serve(t, dbThrows, dbSales, dbSeq.sales)
        IN  /\ out.seq <= MaxRows
            /\ dbSales' = out.sales
            /\ dbSeq' = [dbSeq EXCEPT !.sales = out.seq]
            /\ UNCHANGED <<dbUsers, now>>
            /\ Continue(t, FALSE, out.resp)

\* A request to POST /api/data with the month data as the body, which is how
\* the route reads it (the route's tests post it so), by a registered user.
DirectPost(user, monthData) ==
    LET out == routePost(user.id, monthData, dbSales, dbSeq.sales)
    IN  /\ out.seq <= MaxRows
        /\ dbSales' = out.sales
        /\ dbSeq' = [dbSeq EXCEPT !.sales = out.seq]
        /\ UNCHANGED <<online, clientVars, dbUsers, tasks, now>>
        /\ returned' = NoResult

Next ==
    \/ register(Account.username, Account.password)
    \/ login(Account.username, Account.password)
    \/ handleLogout
    \/ \E r \in MonthData : uploadData(r)
    \/ \E id \in MonthIds : deleteData(id)
    \/ downloadAllData
    \/ syncPendingOperations
    \/ OnlineEvent
    \/ OfflineEvent
    \/ \E t \in InFlight : FetchThrows(t)
    \/ \E t \in InFlight : FetchReturns(t)
    \/ \E u \in dbUsers, r \in MonthData : DirectPost(u, r)

Spec == Init /\ [][Next]_vars

\* ------------------------------------------------------------------ steps
\* a is b, or b with entries appended at its end.
IsPrefix(a, b) == Len(a) <= Len(b) /\ SubSeq(b, 1, Len(a)) = a

\* The step appends entries to the pending log or leaves it as it is.
LogKept == IsPrefix(lsPending, lsPending')

\* The step is a call of uploadData / deleteData / downloadAllData by the
\* application: it returns at once, or it is suspended on its fetch.
CallStep(kind) ==
    \/ returned'.op = kind /\ tasks' = tasks
    \/ \E t \in BagToSet(tasks') : t.kind = kind /\ tasks' = Suspend(tasks, t)

\* The step is the return of the replay run whose last fetch was t.
RunReturns(t) ==
    /\ t.kind = "sync"
    /\ tasks' = Resume(tasks, t)
    /\ returned'.op = "sync"

\* The step is the completion of the call t of uploadData / deleteData.
CallReturns(t) ==
    /\ t.kind \in {"upload", "delete"}
    /\ tasks' = Resume(tasks, t)
    /\ returned'.op = t.kind

\* The step is the answer of the server, its database working, to the
\* request of t, delivered to the client.
Accepted(t) ==
    LET out == Serve(t, FALSE, dbSales, dbSeq.sales)
    IN  /\ dbSales' = out.sales
        /\ dbSeq' = [dbSeq EXCEPT !.sales = out.seq]
        /\ UNCHANGED <<dbUsers, now>>
        /\ Continue(t, FALSE, out.resp)

\* The remote service holds a record of the month for the user.
RemoteHolds(sales, userId, monthId) ==
    \E row \in sales : row.user_id = userId /\ row.month_id = monthId

\* ------------------------------------------------------------------ C1
\* C1: no mutation is lost.  An entry leaves the pending log only by logout
\* or at the return of a replay run that replayed the whole log and had every
\* one of its operations confirmed by the remote service; in every other
\* step the log keeps its entries.
C1_NoMutationLost ==
    [][ \/ LogKept
        \/ handleLogout
        \/ \E t \in InFlight :
              RunReturns(t) /\ t.ops = lsPending /\ returned'.failed = 0 ]_vars

\* ------------------------------------------------------------------ C2
\* C2: syncPendingOperations clears the pending log only if no replayed
\* operation failed.  At the return of a run in which at least one operation
\* failed, every entry of the log is still in the log.
C2_ClearOnlyIfNoneFailed ==
    [][ (returned'.op = "sync" /\ returned'.failed > 0) => LogKept ]_vars

\* ------------------------------------------------------------------ C3
\* C3: replay is in append order.  Entries enter the log only at its end
\* (so getPendingOperations returns them in append order); a run starts on
\* the log as it is, with the request of its first entry; the next request
\* of a run is issued in the step in which its previous request completes
\* and is the request of the next entry.
C3_ReplayInAppendOrder ==
    [][ /\ lsPending' = <<>> \/ LogKept
        /\ \A t2 \in BagToSet(tasks') :
              (t2.kind = "sync" /\ CopiesIn(t2, tasks') > CopiesIn(t2, tasks)) =>
                 /\ t2.idx \in 1..Len(t2.ops)
                 /\ t2.call = t2.ops[t2.idx].type
                 /\ t2.arg = [data |-> t2.ops[t2.idx].data, monthId |-> t2.ops[t2.idx].monthId]
                 /\ \/ /\ tasks' = Suspend(tasks, t2)
                       /\ t2.ops = lsPending
                       /\ t2.idx = 1
                    \/ \E t \in InFlight :
                          /\ t.kind = "sync"
                          /\ tasks' = Suspend(Resume(tasks, t), t2)
                          /\ t2.ops = t.ops
                          /\ t2.idx = t.idx + 1 ]_vars

\* A run is suspended on the request of the second of two different entries.
C3_Witness ==
    \E t \in InFlight :
        t.kind = "sync" /\ Len(t.ops) = 2 /\ t.idx = 2 /\ t.ops[1] # t.ops[2]

\* ------------------------------------------------------------------ C4
\* The log holds an upload of the month followed by a delete of it.
HoldsUploadThenDelete(log, monthId) ==
    \E i, j \in 1..Len(log) :
        /\ i < j
        /\ log[i].type = "upload" /\ log[i].data.monthId = monthId
        /\ log[j].type = "delete" /\ log[j].monthId = monthId

EffectApplied(op, userId, sales) ==
    IF op.type = "upload" THEN RemoteHolds(sales, userId, op.data.monthId)
    ELSE ~\E row \in sales : row.user_id = userId /\ row.id = ParseInt(op.monthId)

C6_OfflineStatus == ~online => syncStatus = "offline"

\* ------------------------------------------------------------------ C7
\* C7: uploadData, deleteData and downloadAllData called with no session
\* return the login-first error, issue no request, and leave SyncStatus, the
\* cache, the pending log and the remote service unchanged.
C7_AuthRequired ==
    [][ \A kind \in {"upload", "delete", "download"} :
          (CallStep(kind) /\ ~isLoggedIn) =>
             /\ returned' = Result(kind, FALSE, ErrLoginFirst, 0, <<>>, 0, 0)
             /\ UNCHANGED <<syncStatus, lsCache, lsPending, tasks, dbVars>> ]_vars

\* An unauthenticated call has returned the login-first error.
C7_Witness == ~isLoggedIn /\ returned.error = ErrLoginFirst

\* ------------------------------------------------------------------ C8
\* What an authenticated uploadData(r) / deleteData(id) does to the log when
\* the network is unreachable: the log with one entry more, that of r / id.
OfflineAppends ==
    /\ \A r \in MonthData :
          LET s == StartCall("upload", UploadArg(r), TRUE, FALSE, CurrentEngine)
          IN  /\ ~s.issued
              /\ s.e.pending = Append(lsPending,
                     [type |-> "upload", data |-> r, monthId |-> NoId,
                      timestamp |-> "Date.now()"])
    /\ \A id \in MonthIds :
          LET s == StartCall("delete", DeleteArg(id), TRUE, FALSE, CurrentEngine)
          IN  /\ ~s.issued
              /\ s.e.pending = Append(lsPending,
                     [type |-> "delete", data |-> NoData, monthId |-> id,
                      timestamp |-> "Date.now()"])

\* C8: an authenticated uploadData(r) / deleteData(id) called while the
\* network is unreachable appends exactly one entry of the matching kind,
\* carrying r / id, at the end of the pending log and issues no request:
\* in every state that is what the call would do, and every such call
\* that is made does it.
C8_OfflineEnqueue ==
    [][ /\ OfflineAppends
        /\ \A kind \in {"upload", "delete"} :
              (CallStep(kind) /\ isLoggedIn /\ ~online) =>
                 /\ tasks' = tasks
                 /\ UNCHANGED dbVars
                 /\ Len(lsPending') = Len(lsPending) + 1
                 /\ LogKept
                 /\ lsPending'[Len(lsPending')].type = kind
                 /\ IF kind = "upload"
                    THEN lsPending'[Len(lsPending')].data \in MonthData
                    ELSE lsPending'[Len(lsPending')].monthId \in MonthIds ]_vars

\* An offline upload has been appended behind an entry already in the log.
C8_Witness ==
    /\ ~online /\ isLoggedIn
    /\ returned.op = "upload" /\ returned.error = ErrOfflineSavedU
    /\ Len(lsPending) = 2
    /\ lsPending[2].type = "upload"

\* ------------------------------------------------------------------ C9
\* C9: an uploadData / deleteData issued online that fails (error response,
\* 5xx, timeout, thrown request) appends the pending operation of the call
\* and sets SyncStatus to error.
C9_FailedOnlineEnqueues ==
    [][ \A t \in InFlight :
          (CallReturns(t) /\ ~returned'.success) =>
             /\ lsPending' = Append(lsPending, PendingOp(t.kind, t.arg))
             /\ syncStatus' = "error" ]_vars

\* ------------------------------------------------------------------ C10
\* The step is a mutation that cannot reach the remote service: a call made
\* while the network is unreachable, or the completion of a call whose
\* request threw.
Unreachable(kind) ==
    \/ CallStep(kind) /\ isLoggedIn /\ ~online
    \/ \E t \in InFlight : t.kind = kind /\ Continue(t, TRUE, NoResponse)

CarriesData(item, r) ==
    /\ item.monthId = r.monthId
    /\ item.monthName = r.monthName
    /\ item.color = r.color
    /\ item.config = r.config
    /\ item.groupedData = r.groupedData
    /\ item.rawData = r.rawData

\* The item is the record the application knows by id: its month id is id
\* and id is its row id as a string (StateManager.initFromCloud takes
\* item.id.toString() as the id of the month).
IsRecord(item, id) == item.monthId = id /\ item.id = ParseInt(id)

ListCarries(list, r) == \E i \in 1..Len(list) : CarriesData(list[i], r)
ListHoldsId(list, id) == \E i \in 1..Len(list) : IsRecord(list[i], id)

\* ------------------------------------------------------------------ C11
\* C11: every authenticated mutation updates the local cache.  When an
\* uploadData(r) of the application returns (at once while offline, or at
\* the completion of its request), getCachedData of the current user
\* contains r; when a deleteData(id) returns while offline, getCachedData of
\* the current user contains no record with that id.
C11_OptimisticCache ==
    [][ /\ \A t \in InFlight :
              (CallReturns(t) /\ t.kind = "upload" /\ isLoggedIn) =>
                 ListCarries(getCachedData(lsCache', currentUser.id), t.arg.data)
        /\ (CallStep("upload") /\ tasks' = tasks /\ isLoggedIn /\ ~online) =>
              ListCarries(getCachedData(lsCache', currentUser.id),
                          lsPending'[Len(lsPending')].data)
        /\ (CallStep("delete") /\ tasks' = tasks /\ isLoggedIn /\ ~online) =>
              ~ListHoldsId(getCachedData(lsCache', currentUser.id),
                           lsPending'[Len(lsPending')].monthId) ]_vars

\* ------------------------------------------------------------------ C12
\* C12: delete completeness.  At the step in which the remote service
\* answers a deleteData(id) of the current user with success (the call of
\* the application or the one of a replay), neither the list the remote
\* service would return to downloadAllData nor getCachedData of the user
\* holds a record with that id.
C12_DeleteCompleteness ==
    [][ \A t \in InFlight :
          ( /\ t.call = "delete"
            /\ isLoggedIn /\ t.auth = token
            /\ Accepted(t)
            /\ Serve(t, FALSE, dbSales, dbSeq.sales).resp.success )
          => /\ ~ListHoldsId(routeGet(currentUser.id, dbSales').data, t.arg.monthId)
             /\ ~ListHoldsId(getCachedData(lsCache', currentUser.id), t.arg.monthId) ]_vars

\* ------------------------------------------------------------------ C13
\* The records of a list as the remote service sent them: without the
\* importedAt that getCachedData adds to every item it returns.
RecordsOf(list) ==
    [i \in 1..Len(list) |->
        [f \in DOMAIN list[i] \ {"importedAt"} |-> list[i][f]]]

\* C13: cloud wins.  At the step in which the remote service answers a
\* downloadAllData with success and a user is logged in, whatever the cache
\* of that user held, the call returns the list of the response, the stored
\* cache entry of the user is that list, and getCachedData of the user
\* returns the records of that list and no other.
C13_CloudWins ==
    [][ \A t \in InFlight :
          LET resp == Serve(t, FALSE, dbSales, dbSeq.sales).resp
          IN  (t.kind = "download" /\ isLoggedIn /\ Accepted(t) /\ resp.success) =>
                 /\ returned' = Result("download", TRUE, "", 0, resp.data, 0, 0)
                 /\ lsCache'[currentUser.id] = [present |-> TRUE, data |-> resp.data]
                 /\ RecordsOf(getCachedData(lsCache', currentUser.id)) = resp.data ]_vars

\* A download has returned the empty list of a remote service whose rows
\* were all deleted, and the cache entry of the user is that empty list.
C13_Witness ==
    /\ isLoggedIn
    /\ returned.op = "download" /\ returned.success /\ returned.data = <<>>
    /\ dbSeq.sales > 0 /\ dbSales = {}
    /\ lsCache[currentUser.id] = [present |-> TRUE, data |-> <<>>]

\* ------------------------------------------------------------------ C14
\* C14: downloadAllData called by a logged-in user while the network is
\* unreachable issues no request, changes neither the remote service nor
\* the cache, sets SyncStatus to offline, and returns what getCachedData of
\* the user returns when that is not empty, the offline-no-cache error when
\* it is.
C14_OfflineFallback ==
    [][ (CallStep("download") /\ isLoggedIn /\ ~online) =>
          LET cached == getCachedData(lsCache, currentUser.id)
          IN  /\ tasks' = tasks
              /\ UNCHANGED <<dbVars, lsCache, lsPending>>
              /\ syncStatus' = "offline"
              /\ returned' = IF cached # <<>>
                             THEN Result("download", TRUE, "", 0, cached, 0, 0)
                             ELSE Result("download", FALSE, ErrOfflineNoCache, 0, <<>>, 0, 0) ]_vars

\* An offline download has returned the records cached for the user.
C14_Witness ==
    /\ ~online /\ isLoggedIn
    /\ syncStatus = "offline"
    /\ returned.op = "download" /\ returned.success
    /\ returned.data # <<>>
    /\ RecordsOf(returned.data) = lsCache[currentUser.id].data

\* ------------------------------------------------------------------ C15
\* The step is the completion of the download t whose list request failed:
\* the request threw, or the remote service answered with an error.
DownloadFails(t) ==
    /\ t.kind = "download"
    /\ \/ Continue(t, TRUE, NoResponse)
       \/ \E dbThrows \in BOOLEAN :
             LET resp == Serve(t, dbThrows, dbSales, dbSeq.sales).resp
             IN  ~resp.success /\ Continue(t, FALSE, resp)

\* C15: a downloadAllData issued online whose list request fails falls back
\* to the cache as the offline branch does: it returns what getCachedData of
\* the user returns when that is not empty, the offline-no-cache error when
\* it is, and leaves the cache as it was.
C15_FallbackOnFailure ==
    [][ \A t \in InFlight :
          (DownloadFails(t) /\ isLoggedIn) =>
             LET cached == getCachedData(lsCache, currentUser.id)
             IN  /\ lsCache' = lsCache
                 /\ returned' = IF cached # <<>>
                                THEN Result("download", TRUE, "", 0, cached, 0, 0)
                                ELSE Result("download", FALSE, ErrOfflineNoCache, 0, <<>>, 0, 0) ]_vars

\* ------------------------------------------------------------------ C16
\* The remote store holds at most one row per user and month id.
OneRowPerMonth(sales) ==
    \A r1, r2 \in sales :
        (r1.user_id = r2.user_id /\ r1.month_id = r2.month_id) => r1 = r2

CountedSynced(t) ==
    \/ returned'.op = "sync" /\ returned'.synced = t.synced + 1
    \/ \E t2 \in BagToSet(tasks') :
          t2.kind = "sync" /\ t2.ops = t.ops /\ t2.synced = t.synced + 1

\* C18: when the remote service answers a delete with not-found (404),
\* deleteData treats it as a success: the call of the application returns
\* success and sets SyncStatus to idle, a replay counts the operation as
\* succeeded.
C18_NotFoundIsSuccess ==
    [][ \A t \in InFlight :
          ( /\ t.call = "delete"
            /\ Accepted(t)
            /\ Serve(t, FALSE, dbSales, dbSeq.sales).resp.status = 404 )
          => IF t.kind = "delete"
             THEN returned'.success /\ syncStatus' = "idle"
             ELSE CountedSynced(t) ]_vars

\* ------------------------------------------------------------------ C19
\* The step ends the session of the user logged in.
SessionEnds == isLoggedIn /\ ~isLoggedIn'

\* C19: logout erasure.  After the step that ends a session, whatever the
\* cache and the log held and whatever was in flight, getCachedData of the
\* user who was logged in returns the empty sequence and the pending log is
\* empty; and as long as nobody is logged in getCachedData returns the
\* empty sequence for every user.
C19_LogoutErasure ==
    [][ /\ SessionEnds =>
              /\ getCachedData(lsCache', currentUser.id) = <<>>
              /\ getPendingOperations(lsPending') = <<>>
        /\ ~isLoggedIn' =>
              \A u \in UserIds : getCachedData(lsCache', u) = <<>> ]_vars

\* The user has logged out while a replay of the log was suspended on a
\* request: the log that run started on is erased.
C19_Witness ==
    /\ ~isLoggedIn
    /\ lsPending = <<>>
    /\ \A u \in UserIds : getCachedData(lsCache, u) = <<>>
    /\ \E t \in InFlight : t.kind = "sync" /\ t.auth # NullToken

\* ------------------------------------------------------------------ C20
\* C20: after the step that ends a session the token and the user in
\* memory are null, the saved token and the saved user are removed, and
\* isLoggedIn() is false.
C20_LogoutClearsSession ==
    [][ SessionEnds =>
          /\ token' = NullToken
          /\ currentUser' = NullUser
          /\ lsToken' = NullToken
          /\ lsUser' = NullUser
          /\ ~isLoggedIn' ]_vars

\* The user has logged out while a download made in the session was
\* suspended on its request.
C20_Witness ==
    /\ ~isLoggedIn
    /\ token = NullToken /\ currentUser = NullUser
    /\ lsToken = NullToken /\ lsUser = NullUser
    /\ \E t \in InFlight : t.kind = "download" /\ t.auth # NullToken

\* ------------------------------------------------------------------ C21
\* C21: after the step that ends a session, getSyncStatus() of the engine
\* is idle, whatever it was before (syncing, error or offline).
C21_LogoutIdle ==
    [][ SessionEnds => syncStatus' = "idle" ]_vars

\* ------------------------------------------------------------------ C28
\* C28: a call of uploadData, deleteData, downloadAllData or
\* syncPendingOperations by the user logged in that writes the status or
\* the pending log never starts while another call of the engine is
\* suspended on a request; this includes the replay started by the online
\* event.
C28_Serialized ==
    [][ \A kind \in {"upload", "delete", "download", "sync"} :
          ( /\ CallStep(kind)
            /\ isLoggedIn
            /\ <<syncStatus, lsPending>>' # <<syncStatus, lsPending>> )
          => tasks = EmptyBag ]_vars

\* ------------------------------------------------------------------ session
\* The server's clock passes the expiry of the tokens signed so far.
ClockTick ==
    /\ now < MaxClock
    /\ now' = now + 1
    /\ UNCHANGED <<online, clientVars, dbUsers, dbSales, dbSeq, tasks>>
    /\ returned' = NoResult

\* router.get('/me'): authMiddleware, then the user of the token.
routeMe(tok) ==
    LET auth == authMiddleware(tok)
    IN  IF ~auth.ok
        THEN AuthResponse(401, FALSE, auth.error, NullToken, NullUser)
        ELSE AuthResponse(200, TRUE, "", NullToken,
                          [id |-> auth.user.id, username |-> auth.user.username])

\* AuthManager.restoreSession suspended on its fetch of /auth/me, with the
\* saved token and the saved user it read from localStorage.
RestoreTask(savedToken, savedUser) ==
    [kind |-> "restore", call |-> "me", arg |-> NoArg, auth |-> savedToken,
     ops |-> <<>>, idx |-> 0, synced |-> 0, failed |-> 0, savedUser |-> savedUser]

\* The engine calls suspended on a fetch.
EngineTasks == {t \in InFlight : t.kind # "restore"}

\* AuthManager._clearSession: the two saved entries are removed.
ClearSession ==
    /\ lsToken' = NullToken
    /\ lsUser' = NullUser

\* The page is loaded (or loaded again): the script starts with its initial
\* values in memory, whatever was suspended is gone with the old page (a
\* request of it that was on its way reaches the server or does not), and the
\* DOMContentLoaded handler calls AuthManager.restoreSession(), which returns
\* false at once without a saved token or user and is suspended on its
\* fetch otherwise.
PageLoad ==
    /\ token' = NullToken
    /\ currentUser' = NullUser
    /\ syncStatus' = "idle"
    /\ UNCHANGED <<online, lsToken, lsUser, lsCache, lsPending, dbUsers, now>>
    /\ \/ UNCHANGED <<dbSales, dbSeq>>
       \/ \E t \in EngineTasks :
             LET out == Serve(t, FALSE, dbSales, dbSeq.sales)
             IN  /\ out.sales # dbSales
                 /\ out.seq <= MaxRows
                 /\ dbSales' = out.sales
                 /\ dbSeq' = [dbSeq EXCEPT !.sales = out.seq]
    /\ IF lsToken = NullToken \/ lsUser = NullUser
       THEN /\ tasks' = EmptyBag
            /\ returned' = Result("restore", FALSE, "", 0, <<>>, 0, 0)
       ELSE /\ tasks' = SetToBag({RestoreTask(lsToken, lsUser)})
            /\ returned' = NoResult

\* The fetch of restoreSession returns: the saved token becomes the session
\* when the response is ok, the saved session is removed when it is not.
RestoreReturns(t) ==
    LET resp == routeMe(t.auth)
    IN  /\ t.kind = "restore"
        /\ tasks' = Resume(tasks, t)
        /\ UNCHANGED <<online, syncStatus, lsCache, lsPending, dbVars>>
        /\ IF resp.status = 200
           THEN /\ token' = t.auth
                /\ currentUser' = IF resp.user # NullUser THEN resp.user ELSE t.savedUser
                /\ UNCHANGED <<lsToken, lsUser>>
                /\ returned' = Result("restore", TRUE, "", 0, <<>>, 0, 0)
           ELSE /\ ClearSession
                /\ UNCHANGED <<token, currentUser>>
                /\ returned' = Result("restore", FALSE, "", 0, <<>>, 0, 0)

\* The fetch of restoreSession throws: the catch branch removes the saved
\* session.
RestoreThrows(t) ==
    /\ t.kind = "restore"
    /\ tasks' = Resume(tasks, t)
    /\ UNCHANGED <<online, syncStatus, lsCache, lsPending, dbVars>>
    /\ ClearSession
    /\ UNCHANGED <<token, currentUser>>
    /\ returned' = Result("restore", FALSE, "", 0, <<>>, 0, 0)

\* The names and passwords typed into the forms: empty, blank, padded,
\* registered or not; empty, too short, of the least length, longer.
Names == {<<>>, <<" ">>, <<" ", "a">>, <<"a">>, <<"b">>}

Passwords ==
    {<<>>, <<"s", "e", "c", "r", "e">>, Account.password,
     <<"s", "e", "c", "r", "e", "t", "2">>}

\* The session manager alone: the forms with every name and password, logout,
\* the page load with restoreSession, and the expiry of tokens.
NextSession ==
    \/ \E n \in Names, p \in Passwords : register(n, p)
    \/ \E n \in Names, p \in Passwords : login(n, p)
    \/ handleLogout
    \/ PageLoad
    \/ \E t \in InFlight : RestoreReturns(t)
    \/ \E t \in InFlight : RestoreThrows(t)
    \/ ClockTick

SpecSession == Init /\ [][NextSession]_vars

\* ------------------------------------------------------------------ C23
\* C23: in every reachable state the token and the user are both null or
\* both set, in memory (AuthManager.token, AuthManager.currentUser) and in
\* the saved entries (localStorage), whatever register, login,
\* restoreSession and logout have done.
C23_SessionPaired ==
    /\ token = NullToken <=> currentUser = NullUser
    /\ lsToken = NullToken <=> lsUser = NullUser

\* restoreSession has made the saved token and the user of the response the
\* session in memory.
C23_Witness ==
    /\ returned.op = "restore" /\ returned.success
    /\ token # NullToken /\ token = lsToken
    /\ currentUser # NullUser /\ currentUser = lsUser

\* ------------------------------------------------------------------ C24
\* The name has no character other than blanks.
IsBlank(name) == \A i \in 1..Len(name) : name[i] = " "

\* The step changes neither the session nor the remote store.
NoSessionEffect == UNCHANGED <<token, currentUser, lsToken, lsUser, dbUsers, dbSales, dbSeq>>

\* The call of register or login returns the validation error and nothing
\* else happens.
RejectedWith(error) ==
    /\ ~returned'.success
    /\ returned'.error = error
    /\ NoSessionEffect

\* C24: register and login called with a name that is empty after trimming
\* return the error of the name ('请输入有效用户名'), called with a password
\* of fewer than 6 characters they return the error of the password
\* ('密码长度至少6位'), in both cases without a request (the result is the
\* validation error, never an answer of the server or a network error) and
\* without a change of the session; a name with a non-blank character and a
\* password of 6 characters or more never get a validation error.
C24_Validation ==
    [][ \A n \in Names, p \in Passwords :
          (register(n, p) \/ login(n, p)) =>
             IF IsBlank(n) THEN RejectedWith(ErrBadUsername)
             ELSE IF Len(p) < 6 THEN RejectedWith(ErrShortPassword)
             ELSE returned'.error \notin {ErrBadUsername, ErrShortPassword} ]_vars

\* A login with a blank name has been rejected while a user was logged in
\* and a user was registered.
C24_Witness ==
    /\ returned.op = "login" /\ returned.error = ErrBadUsername
    /\ isLoggedIn
    /\ dbUsers # {}

\* ------------------------------------------------------------------ C25
\* A user of that name, trimmed, is registered.
NameTaken(name) == \E u \in dbUsers : u.username = Trim(name)

\* C25: a register call that passes validation with a name already
\* registered fails with the error of the remote service ('用户名已存在')
\* when its answer arrives (with the network error when it does not), and
\* changes nothing: token and user in memory, the saved entries and the
\* table of users are as before.
C25_DuplicateRegister ==
    [][ \A n \in Names, p \in Passwords :
          (register(n, p) /\ ~IsBlank(n) /\ Len(p) >= 6 /\ NameTaken(n)) =>
             /\ ~returned'.success
             /\ returned'.error \in {ErrUserExists, ErrNetRetry}
             /\ UNCHANGED <<token, currentUser, lsToken, lsUser, dbUsers, dbSeq>> ]_vars

\* A registration under a registered name has been refused after its owner
\* had logged out.
C25_Witness ==
    /\ returned.op = "register" /\ returned.error = ErrUserExists
    /\ ~isLoggedIn /\ lsToken = NullToken
    /\ dbUsers # {}

\* ------------------------------------------------------------------ C26
\* A user of that name, trimmed, is registered with that password.
Registered(name, password) ==
    \E u \in dbUsers : u.username = Trim(name) /\ u.password_hash = <<"bcrypt">> \o password

\* C26: a login that passes validation with a name that is not registered,
\* or with a registered name and another password than its own, is answered
\* by the remote service with one and the same response (401,
\* '用户名或密码错误', no token, no user) and returns that error to the
\* caller (the network error when the answer does not arrive); the session
\* is unchanged.
C26_GenericFailure ==
    [][ \A n \in Names, p \in Passwords :
          (login(n, p) /\ ~IsBlank(n) /\ Len(p) >= 6 /\ ~Registered(n, p)) =>
             /\ routeLogin(Trim(n), p, dbUsers)
                  = AuthResponse(401, FALSE, ErrBadCredentials, NullToken, NullUser)
             /\ ~returned'.success
             /\ returned'.error \in {ErrBadCredentials, ErrNetRetry}
             /\ UNCHANGED <<token, currentUser, lsToken, lsUser>> ]_vars

\* A login has been refused for its credentials while one name was
\* registered and another was not.
C26_Witness ==
    /\ returned.op = "login" /\ returned.error = ErrBadCredentials
    /\ \E n \in Names : NameTaken(n)
    /\ \E n \in Names : ~IsBlank(n) /\ ~NameTaken(n)

\* ------------------------------------------------------------------ C27
\* The step is the return of restoreSession (with or without a fetch).
RestoreEnds == returned'.op = "restore"

\* C27: restoreSession makes at most one request and then returns.  When the
\* remote service validates the saved token, it returns true and the
\* session is that token and its user; when the remote service rejects the
\* token or the fetch throws, it returns false, nobody is logged in and both
\* saved entries are removed; when no token or no user is saved, it returns
\* false without a request.
C27_RestoreSession ==
    [][ /\ RestoreEnds =>
              \A t \in BagToSet(tasks') : t.kind # "restore"
        /\ PageLoad =>
              /\ BagCardinality(tasks') <= 1
              /\ (lsToken = NullToken \/ lsUser = NullUser) =>
                    /\ tasks' = EmptyBag
                    /\ RestoreEnds /\ ~returned'.success
                    /\ ~isLoggedIn'
        /\ \A t \in InFlight :
              /\ (RestoreReturns(t) /\ routeMe(t.auth).status = 200) =>
                    /\ RestoreEnds /\ returned'.success
                    /\ isLoggedIn'
                    /\ token' = t.auth
                    /\ currentUser' = [id |-> t.auth.id, username |-> t.auth.username]
              /\ ((RestoreReturns(t) /\ routeMe(t.auth).status # 200) \/ RestoreThrows(t)) =>
                    /\ RestoreEnds /\ ~returned'.success
                    /\ ~isLoggedIn'
                    /\ lsToken' = NullToken
                    /\ lsUser' = NullUser ]_vars

\* ------------------------------------------------------------------ expiry
\* The engine of one account whose token expires while it is used: calls
\* made online and offline, the replay of the log, the completions of the
\* fetches, and the clock.
NextExpiry ==
    \/ register(Account.username, Account.password)
    \/ login(Account.username, Account.password)
    \/ \E r \in MonthData : uploadData(r)
    \/ \E id \in MonthIds : deleteData(id)
    \/ downloadAllData
    \/ syncPendingOperations
    \/ OnlineEvent
    \/ OfflineEvent
    \/ \E t \in EngineTasks : FetchThrows(t)
    \/ \E t \in EngineTasks : FetchReturns(t)
    \/ ClockTick

SpecExpiry == Init /\ [][NextExpiry]_vars

\* ------------------------------------------------------------------ C29
\* The step is the delivery of the answer to the request of t, and the
\* answer is the 401 of authMiddleware.
AuthRejected(t) ==
    /\ Serve(t, FALSE, dbSales, dbSeq.sales).resp.status = 401
    /\ Accepted(t)

\* C29: a call of uploadData, deleteData or downloadAllData that the remote
\* service rejects with an authentication error (the token has expired)
\* returns the error of the remote service to the caller, is not appended
\* to the pending log, and leaves nobody logged in, so that the user has to
\* log in again.
C29_AuthErrorEndsSession ==
    [][ \A t \in InFlight :
          (t.kind \in {"upload", "delete", "download"} /\ AuthRejected(t)) =>
             /\ ~returned'.success
             /\ returned'.error = Serve(t, FALSE, dbSales, dbSeq.sales).resp.error
             /\ lsPending' = lsPending
             /\ ~isLoggedIn' ]_vars

\* ------------------------------------------------------------------ owners
\* A second account.
AccountB == [username |-> <<"b">>, password |-> <<"s", "e", "c", "r", "e", "t", "2">>]

Accounts == {Account, AccountB}

\* Two accounts and the rows they own: either registers, logs in and out,
\* rows are posted for either, and whoever is logged in deletes by month id.
NextOwner ==
    \/ \E a \in Accounts : register(a.username, a.password)
    \/ \E a \in Accounts : login(a.username, a.password)
    \/ handleLogout
    \/ \E u \in dbUsers, r \in MonthData : DirectPost(u, r)
    \/ \E id \in MonthIds : deleteData(id)
    \/ \E t \in EngineTasks : FetchThrows(t)
    \/ \E t \in EngineTasks : FetchReturns(t)

SpecOwner == Init /\ [][NextOwner]_vars

\* ------------------------------------------------------------------ C30
\* The row the DELETE request of t names is a row of another user than the
\* one of its token.
ForeignTarget(t) ==
    \E row \in dbSales : row.id = ParseInt(t.arg.monthId) /\ row.user_id # t.auth.id

\* C30: a delete request never removes or alters a row of another user than
\* the one of its token, whether its answer arrives or not; when it names a
\* row of another user, the remote service answers 404
\* ('数据不存在或无权限删除'), deleteData returns that error and the
\* table is unchanged.
C30_ForeignDelete ==
    [][ \A t \in InFlight :
          t.call = "delete" =>
             /\ tasks' = Resume(tasks, t) =>
                   \A u \in UserIds \ {t.auth.id} : RowsOf(dbSales', u) = RowsOf(dbSales, u)
             /\ (Accepted(t) /\ ForeignTarget(t)) =>
                   /\ Serve(t, FALSE, dbSales, dbSeq.sales).resp.status = 404
                   /\ ~returned'.success
                   /\ returned'.error = ErrNotFound
                   /\ dbSales' = dbSales ]_vars

\* The user logged in has been refused the delete of row 1, which belongs
\* to the other user and is still there.
C30_Witness ==
    /\ returned.op = "delete" /\ returned.error = ErrNotFound
    /\ isLoggedIn
    /\ \E row \in dbSales : row.id = 1 /\ row.user_id # currentUser.id

\* ------------------------------------------------------------------ identities
\* The record the first account works with.
RecordA == CHOOSE r \in MonthData : r.monthId = <<"1">>

\* The user logged in is the second account.
ActiveB == isLoggedIn /\ currentUser.username = AccountB.username

\* Two accounts in one browser.  Only the first account has data: its rows
\* are posted to the remote service and it uploads; the second account
\* downloads and replays.  Either registers, logs in and out; the page is
\* loaded again and restoreSession returns or throws; the network goes off
\* and on.  The forms are used while nobody is logged in, as the header
\* shows them (AuthUI.updateHeaderUserStatus).
NextLeak ==
    \/ \E a \in Accounts : ~isLoggedIn /\ register(a.username, a.password)
    \/ \E a \in Accounts : ~isLoggedIn /\ login(a.username, a.password)
    \/ handleLogout
    \/ PageLoad
    \/ \E t \in InFlight : RestoreReturns(t)
    \/ \E t \in InFlight : RestoreThrows(t)
    \/ \E u \in dbUsers : u.username = Account.username /\ DirectPost(u, RecordA)
    \/ ~ActiveB /\ uploadData(RecordA)
    \/ downloadAllData
    \/ syncPendingOperations
    \/ OnlineEvent
    \/ OfflineEvent
    \/ \E t \in EngineTasks : FetchThrows(t)
    \/ \E t \in EngineTasks : FetchReturns(t)

SpecLeak == Init /\ [][NextLeak]_vars

\* ------------------------------------------------------------------ C22
\* C22: no leakage across identities.  The second account never uploads and
\* has no row on the remote service, so every upload in the log and every
\* record in a cache or in a result was created under the first account.
\* While the second account is the user logged in, no upload is replayed
\* with its token, its cache holds no record and no download returns a
\* record.
C22_NoLeak ==
    /\ \A t \in EngineTasks :
          t.auth.username = AccountB.username => t.call # "upload"
    /\ ActiveB =>
          /\ getCachedData(lsCache, currentUser.id) = <<>>
          /\ returned.op = "download" => returned.data = <<>>

\* ----------------------------------------------------- LocalCacheManager
\* The public methods of LocalCacheManager applied directly, as the unit
\* tests of the cache apply them.

\* The instants an importedAt takes.
Instants == {"2024-01-01T00:00:00.000Z"}

\* The records the cache is exercised with: the { monthId, monthName,
\* importedAt } of the cache tests with a Date, with the ISO string of one,
\* and without importedAt (what the server's items are).
CacheRecords ==
    [monthId : {<<"1">>}, monthName : MonthNames]
    \cup [monthId : {<<"m", "1">>}, monthName : MonthNames,
          importedAt : {DateOf(t) : t \in Instants}]
    \cup [monthId : {<<"1">>}, monthName : MonthNames,
          importedAt : {StringOf(t) : t \in Instants}]

\* The lists of records handed to cacheData.
CacheLists ==
    {<<>>} \cup {<<r>> : r \in CacheRecords}
           \cup {<<r, s>> : r \in CacheRecords, s \in CacheRecords}

\* The userId arguments: the identities, and 0 for a falsy one.
CacheIds == {0} \cup UserIds

\* cacheManager.cacheData(userId, data)
CacheStore(userId, data) ==
    /\ lsCache' = cacheData(lsCache, userId, data)
    /\ UNCHANGED <<online, syncStatus, authVars, lsPending, dbVars, tasks, returned>>

\* cacheManager.getCachedData(userId), its value handed to the caller
CacheRead(userId) ==
    /\ returned' = Result("getCachedData", TRUE, "", userId,
                          getCachedData(lsCache, userId), 0, 0)
    /\ UNCHANGED <<online, clientVars, dbVars, tasks>>

\* cacheManager.clearUserCache(userId)
CacheClearUser(userId) ==
    /\ lsCache' = clearUserCache(lsCache, userId)
    /\ UNCHANGED <<online, syncStatus, authVars, lsPending, dbVars, tasks, returned>>

\* cacheManager.addPendingOperation(operation)
CacheAddPending(op) ==
    /\ Len(lsPending) < MaxPending
    /\ lsPending' = addPendingOperation(lsPending, op)
    /\ UNCHANGED <<online, syncStatus, authVars, lsCache, dbVars, tasks, returned>>

\* cacheManager.clearAllCache()
CacheClearAll ==
    /\ lsCache' = clearAllCache(lsCache)
    /\ lsPending' = clearPendingOperations(lsPending)
    /\ UNCHANGED <<online, syncStatus, authVars, dbVars, tasks, returned>>

NextCache ==
    \/ \E u \in CacheIds, data \in CacheLists : CacheStore(u, data)
    \/ \E u \in CacheIds : CacheRead(u)
    \/ \E u \in CacheIds : CacheClearUser(u)
    \/ \E m \in {<<"1">>} : CacheAddPending(PendingOp("delete", DeleteArg(m)))
    \/ CacheClearAll

SpecCache == Init /\ [][NextCache]_vars

\* out is the record d as getCachedData gives it back: every field of d
\* other than importedAt with its value, importedAt a Date of the instant d
\* had (as a Date or as its ISO string), and nothing else but the importedAt
\* getCachedData puts on a record that had none.
SameRecord(out, d) ==
    /\ DOMAIN out = DOMAIN d \cup {"importedAt"}
    /\ \A f \in DOMAIN d \ {"importedAt"} : out[f] = d[f]
    /\ "importedAt" \in DOMAIN d => out.importedAt = DateOf(d.importedAt.text)

SameRecords(out, data) ==
    /\ Len(out) = Len(data)
    /\ \A i \in 1..Len(data) : SameRecord(out[i], data[i])

\* C31: cacheData(identity, records) replaces the whole snapshot of that
\* identity: getCachedData(identity) after it gives the records of that
\* call, in their order, with their fields and the instant of their
\* importedAt, and none of an earlier call; the snapshot of every other
\* identity is what it was.
C31_CacheReplaces ==
    [][\A u \in UserIds, data \in CacheLists :
         CacheStore(u, data) =>
            /\ SameRecords(getCachedData(lsCache', u), data)
            /\ \A v \in UserIds \ {u} : lsCache'[v] = lsCache[v]]_vars

\* A two-record snapshot of identity 1 was read, then replaced by a
\* one-record snapshot, while identity 2 has a snapshot of its own.
C31_Witness ==
    /\ returned.op = "getCachedData" /\ returned.id = 1
    /\ Len(returned.data) = 2
    /\ returned.data[1].importedAt = DateOf("2024-01-01T00:00:00.000Z")
    /\ lsCache[1].present /\ Len(getCachedData(lsCache, 1)) = 1
    /\ lsCache[2].present /\ Len(lsCache[2].data) = 2

\* C32: getCachedData gives the empty list for every userId that has
\* nothing stored; clearUserCache leaves getCachedData of that identity
\* empty, changes no other stored entry, and a second clearUserCache
\* changes nothing more.
C32_ClearIdempotent ==
    /\ [](\A u \in CacheIds :
            (u = 0 \/ ~lsCache[u].present) => getCachedData(lsCache, u) = <<>>)
    /\ [][\A u \in UserIds :
            CacheClearUser(u) =>
               /\ getCachedData(lsCache', u) = <<>>
               /\ \A v \in UserIds \ {u} : lsCache'[v] = lsCache[v]
               /\ lsPending' = lsPending
               /\ clearUserCache(lsCache', u) = lsCache']_vars

\* Identity 1 has no snapshot (cleared or never stored), a read of it gave
\* the empty list, and identity 2's snapshot and the pending log are there.
C32_Witness ==
    /\ ~lsCache[1].present
    /\ returned.op = "getCachedData" /\ returned.id = 1 /\ returned.data = <<>>
    /\ lsCache[2].present /\ Len(lsCache[2].data) > 0
    /\ Len(lsPending) > 0

\* ------------------------------------------------------------------ C33
\* The step is taken by the replay run suspended on t: the answer to its
\* fetch, after which the run returns or is suspended on a later operation.
RunContinues(t) ==
    /\ t.kind = "sync"
    /\ \/ RunReturns(t)
       \/ \E t2 \in BagToSet(tasks') :
            /\ t2.kind = "sync" /\ t2.ops = t.ops /\ t2.idx > t.idx
            /\ tasks' = Suspend(Resume(tasks, t), t2)

\* The step is the start of a replay run: it returns at once or is
\* suspended on the fetch of its first issued operation.
RunStarts ==
    \/ returned'.op = "sync" /\ tasks' = tasks
    \/ \E t \in BagToSet(tasks') :
         t.kind = "sync" /\ t.ops = lsPending /\ tasks' = Suspend(tasks, t)

\* C33: no step of syncPendingOperations makes the pending log longer: a
\* replayed operation that fails is not appended to the log again.
C33_ReplayNeverGrows ==
    [][ /\ RunStarts => Len(lsPending') <= Len(lsPending)
        /\ \A t \in InFlight :
             RunContinues(t) => Len(lsPending') <= Len(lsPending) ]_vars

\* ------------------------------------------------------------------ C34
\* The step is the return of a replay run, begun in this step or suspended
\* on t before it.
RunEnds ==
    /\ returned'.op = "sync"
    /\ tasks' = tasks \/ \E t \in InFlight : RunReturns(t)

\* C34: when a replay run that replayed at least one operation returns with
\* the network reachable, SyncStatus is error if a replayed operation failed
\* and idle otherwise.
C34_FinalStatus ==
    [][ ( /\ RunEnds
          /\ returned'.synced + returned'.failed > 0
          /\ online' )
        => syncStatus' = IF returned'.failed > 0 THEN "error" ELSE "idle" ]_vars

\* A run returned having replayed two operations, one confirmed and one
\* failed, and the status is error.
C34_Witness ==
    /\ returned.op = "sync" /\ returned.synced > 0 /\ returned.failed > 0
    /\ online /\ syncStatus = "error"

\* ------------------------------------------------------------------ C35
\* C35: syncPendingOperations called with the network unreachable or with
\* the pending log empty does nothing: no request is issued, the pending
\* log, the cache, SyncStatus and the remote service are unchanged, and it
\* returns zero synced and zero failed.
C35_SyncNoOp ==
    [][ (syncPendingOperations /\ (~online \/ lsPending = <<>>))
        => /\ UNCHANGED <<syncStatus, lsPending, lsCache, tasks, dbVars>>
           /\ returned' = Result("sync", online, "", 0, <<>>, 0, 0) ]_vars

\* syncPendingOperations was called offline with a log that has entries and
\* returned at once; the log and the offline status are as they were.
C35_Witness ==
    /\ returned = Result("sync", FALSE, "", 0, <<>>, 0, 0)
    /\ ~online /\ lsPending # <<>> /\ syncStatus = "offline"
    /\ tasks = EmptyBag

\* ------------------------------------------------------------------ C36
\* A replay run over the log ops has been started by the step: it is
\* suspended on the fetch of one of its operations with SyncStatus syncing,
\* or every operation was refused without a request and it has returned
\* with all of them failed.
RunStarted(ops) ==
    \/ /\ \E t \in BagToSet(tasks') :
            t.kind = "sync" /\ t.ops = ops /\ tasks' = Suspend(tasks, t)
       /\ syncStatus' = "syncing"
    \/ /\ tasks' = tasks
       /\ returned'.op = "sync" /\ returned'.failed = Len(ops)
       /\ syncStatus' = "error"

\* C36: on every transition of the network from unreachable to reachable
\* SyncStatus is set to idle and a run of syncPendingOperations is started
\* before anything else happens: with an empty log the status after the
\* event is idle and the run has returned at once, with entries in the log a
\* run over them is under way.  On every transition to unreachable
\* SyncStatus becomes offline.
C36_NetworkEvents ==
    [][ /\ (~online /\ online') =>
             IF lsPending = <<>>
             THEN /\ syncStatus' = "idle"
                  /\ returned' = Result("sync", TRUE, "", 0, <<>>, 0, 0)
                  /\ UNCHANGED <<tasks, lsPending>>
             ELSE RunStarted(lsPending)
        /\ (online /\ ~online') => syncStatus' = "offline" ]_vars

\* After a reconnect: the network is reachable and a run over the entries
\* saved offline is suspended on its first fetch, SyncStatus syncing.
C36_Witness ==
    /\ online /\ syncStatus = "syncing" /\ returned = NoResult
    /\ \E t \in InFlight :
         /\ t.kind = "sync" /\ t.idx = 1 /\ t.ops = lsPending
         /\ \E i \in 1..Len(lsPending) : lsPending[i].type = "delete"

\* ------------------------------------------------------------------ C37
\* The entries of the log behind the snapshot the run of t took when it
\* began.  While no operation of the run has failed the run has appended
\* nothing itself, so these are the entries mutations of the user appended
\* while the run was suspended.
AppendedDuring(t) ==
    IF Len(lsPending) > Len(t.ops) /\ t.failed = 0
    THEN SubSeq(lsPending, Len(t.ops) + 1, Len(lsPending))
    ELSE <<>>

\* C37: a step of a replay run removes no entry that a mutation of the user
\* appended to the log while the run was suspended on a request.
C37_ConcurrentAppendKept ==
    [][ \A t \in InFlight :
          RunContinues(t) =>
             \A i \in 1..Len(AppendedDuring(t)) :
                \E j \in 1..Len(lsPending') : lsPending'[j] = AppendedDuring(t)[i] ]_vars

\* ------------------------------------------------------------------ C38
\* C38: while no session is authenticated (under Spec: before the first
\* login and from a logout to the next login, a time in which no
\* authenticated mutation or download can be invoked) the pending log is
\* empty and no identity has a cache entry, also when a call that began
\* before the logout fails or completes after it.
C38_LogoutStaysClean ==
    ~isLoggedIn => /\ lsPending = <<>>
                   /\ \A u \in UserIds : ~lsCache[u].present

\* ------------------------------------------------------------------ C39
\* C39: whenever a call of uploadData, deleteData, downloadAllData or a
\* replay run is suspended on its request while the network is reachable,
\* SyncStatus is syncing.
C39_SyncingWhileOutstanding ==
    (online /\ InFlight # {}) => syncStatus = "syncing"

\* ------------------------------------------------------------------ C40
\* C40: syncPendingOperations invoked while no session is authenticated, by
\* the application or by the 'online' listener, issues no request and
\* removes no entry from the pending log: the calls in flight, the log and
\* the remote service are what they were.
C40_NoSessionReplay ==
    [][ ( /\ ~isLoggedIn
          /\ syncPendingOperations \/ (~online /\ online') )
        => /\ tasks' = tasks
           /\ lsPending' = lsPending
           /\ UNCHANGED dbVars ]_vars

\* With nobody logged in a run over a log that has entries has returned
\* with every entry failed, and the entries are still there.
C40_Witness ==
    /\ ~isLoggedIn /\ online
    /\ lsPending # <<>>
    /\ returned.op = "sync" /\ returned.synced = 0
    /\ returned.failed = Len(lsPending)
    /\ syncStatus = "error"
====
